---- MODULE Spec2Model ----
(***************************************************************************)
(* A model of the weather front end in app.py: the helper functions        *)
(* (get_letter_for_units, get_zone_time, get_background_image,             *)
(* get_daily_stats, get_min_temp, get_max_temp, get_lat_lon), the route    *)
(* handlers built on them, and the process-wide state of the drawing       *)
(* library.  JSON payloads are TLA+ records and sequences; a missing key   *)
(* is a missing record field.  A Python call is an operator whose value    *)
(* is a record [exc, val]: exc = "none" when the call returns val, and     *)
(* the class of the exception it raises otherwise.                         *)
(***************************************************************************)
EXTENDS Integers, Sequences, FiniteSets, TLC

\* style          pyplot's process-wide style, set by plt.style.use at import
\* figures        number of figures held open by pyplot's figure registry
\* op             the operation being served, "idle" between requests
\* input          the arguments of the operation
\* output         what the operation produced (a response or a call result)
\* calls          outbound calls made while serving, in order
\* payload_daily  the caller's "daily" list as it is after the operation
VARIABLES style, figures, op, input, output, calls, payload_daily

vars == <<style, figures, op, input, output, calls, payload_daily>>

(***************************************************************************)
(* Bounds of the model.                                                    *)
(***************************************************************************)
MaxIconLen == 3     \* longest icon string passed directly to get_background_image
MaxDays == 3        \* longest "daily" list
MaxHours == 2       \* longest "hourly" list
MaxFigures == 1     \* chart renders followed before the model stops counting

(***************************************************************************)
(* Python values and control flow.                                         *)
(***************************************************************************)
None == "None"

Return(v) == [exc |-> "none", val |-> v]

Raise(e) == [exc |-> e, val |-> None]

\* d[k] raises KeyError when k is not a key of d
has(d, k) == k \in DOMAIN d

\* isinstance(exc, cls) for the exception classes that occur here:
\* pytz.UnknownTimeZoneError derives from KeyError; IndexError, TypeError
\* and AttributeError derive from neither KeyError nor ValueError.
IsInstance(e, cls) ==
    \/ e = cls
    \/ e = "UnknownTimeZoneError" /\ cls = "KeyError"

Caught(e, classes) == \E cls \in classes : IsInstance(e, cls)

(***************************************************************************)
(* int(s) on a short string, given as a sequence of characters: surrounding*)
(* blanks are stripped, one sign is allowed, the rest must be one or more  *)
(* decimal digits; anything else raises ValueError.                        *)
(***************************************************************************)
Digits == <<"0", "1", "2", "3", "4", "5", "6", "7", "8", "9">>

IsDigit(c) == \E i \in 1..Len(Digits) : Digits[i] = c

DigitVal(c) == (CHOOSE i \in 1..Len(Digits) : Digits[i] = c) - 1

RECURSIVE LStrip(_)
LStrip(s) == IF s # <<>> /\ Head(s) = " " THEN LStrip(Tail(s)) ELSE s

RECURSIVE RStrip(_)
RStrip(s) ==
    IF s # <<>> /\ s[Len(s)] = " " THEN RStrip(SubSeq(s, 1, Len(s) - 1)) ELSE s

RECURSIVE DigitsValue(_)
DigitsValue(s) ==
    IF s = <<>> THEN 0
    ELSE 10 * DigitsValue(SubSeq(s, 1, Len(s) - 1)) + DigitVal(s[Len(s)])

ParseDigits(body, negative) ==
    IF body # <<>> /\ \A i \in 1..Len(body) : IsDigit(body[i])
    THEN Return(IF negative THEN 0 - DigitsValue(body) ELSE DigitsValue(body))
    ELSE Raise("ValueError")

ParseSigned(t) ==
    IF t # <<>> /\ Head(t) \in {"-", "+"}
    THEN ParseDigits(Tail(t), Head(t) = "-")
    ELSE ParseDigits(t, FALSE)

int(s) == ParseSigned(RStrip(LStrip(s)))

\* icon[:2]
FirstTwo(icon) == SubSeq(icon, 1, IF Len(icon) < 2 THEN Len(icon) ELSE 2)

(***************************************************************************)
(* get_letter_for_units                                                    *)
(***************************************************************************)
get_letter_for_units_swapped(units) ==
    IF units = "imperial" THEN "C" ELSE IF units = "metric" THEN "F" ELSE "K"

get_letter_for_units(units) ==
    IF units = "imperial" THEN "F" ELSE IF units = "metric" THEN "C" ELSE "K"

(***************************************************************************)
(* get_background_image                                                    *)
(***************************************************************************)
\* the if/elif chain, on the value of int(icon[:2])
image_name_for(code) ==
    IF code.exc # "none" THEN code
    ELSE IF code.val = 1 THEN Return("clear")
    ELSE IF code.val > 1 /\ code.val < 9 THEN Return("cloudy")
    ELSE IF code.val > 8 /\ code.val < 11 THEN Return("rainy")
    ELSE IF code.val = 11 THEN Return("thunderstorm")
    ELSE IF code.val = 13 THEN Return("snowy")
    ELSE Return("misty")

image_name_no_gap(code) ==
    IF code.exc # "none" THEN code
    ELSE IF code.val = 1 THEN Return("clear")
    ELSE IF code.val > 1 /\ code.val < 9 THEN Return("cloudy")
    ELSE IF code.val > 8 /\ code.val < 11 THEN Return("rainy")
    ELSE IF code.val = 11 THEN Return("thunderstorm")
    ELSE IF code.val > 11 /\ code.val < 14 THEN Return("snowy")
    ELSE Return("misty")

get_background_image_no_gap(icon) == image_name_no_gap(int(FirstTwo(icon)))

get_background_image(icon) == image_name_for(int(FirstTwo(icon)))

(***************************************************************************)
(* Collaborators.  An environment record env holds what the outside world  *)
(* answers during one request.  pytz.timezone(None) raises                 *)
(* UnknownTimeZoneError, a subclass of KeyError.                           *)
(*   env.location  the geocoder's answer for the city: a record with       *)
(*                 matched = FALSE for None, else the first match          *)
(*   env.zone      TimezoneFinder.timezone_at's answer, or None            *)
(*   env.now       datetime.now().timestamp()                              *)
(***************************************************************************)
render_template(template, context) ==
    [kind |-> "page", template |-> template, context |-> context]

\* an exception that leaves the view function: the request ends as a fault
Propagate(e) == [kind |-> "fault", exc |-> e]

\* datetime.fromtimestamp(t): epoch seconds to a calendar day and a time of day
fromtimestamp(t) == [day |-> t \div 86400, second |-> t % 86400]

get_zone_time(date, lat, lon, env) ==
    IF env.zone = None THEN Raise("UnknownTimeZoneError")
    ELSE Return([time |-> fromtimestamp(date), tzinfo |-> env.zone])

get_lat_lon(city_name, env) ==
    IF env.location.matched
    THEN <<env.location.latitude, env.location.longitude>>
    ELSE <<0, 0>>

(***************************************************************************)
(* get_daily_stats.  day_list = days binds a second name to the caller's   *)
(* list, so pop(0) removes the first day from the caller's list as well;   *)
(* the field days of the result is that list as the call leaves it.        *)
(***************************************************************************)
DayKeys == {"dt", "temp", "weather"}

DayStat(day) ==
    [min_temp |-> day.temp.min,
     max_temp |-> day.temp.max,
     icon |-> day.weather[1].icon,
     description |-> day.weather[1].description,
     date |-> fromtimestamp(day.dt)]

\* the loop over day_list, and the caller's list as the call leaves it
project_days(day_list) ==
    IF \E i \in 1..Len(day_list) : ~(DayKeys \subseteq DOMAIN day_list[i])
    THEN [exc |-> "KeyError", val |-> None, days |-> day_list]
    ELSE [exc |-> "none",
          val |-> [i \in 1..Len(day_list) |-> DayStat(day_list[i])],
          days |-> day_list]

get_daily_stats_keep_first(days) == project_days(days)

get_daily_stats(days) ==
    IF days = <<>>
    THEN [exc |-> "IndexError", val |-> None, days |-> days]
    ELSE project_days(Tail(days))

(***************************************************************************)
(* get_min_temp, get_max_temp                                              *)
(***************************************************************************)
get_min_temp(results) ==
    IF results = <<>> THEN Raise("IndexError")
    ELSE IF \E i \in 1..Len(results) : ~has(results[i], "temp")
    THEN Raise("KeyError")
    ELSE Return(CHOOSE t \in {results[i].temp : i \in 1..Len(results)} :
                    \A i \in 1..Len(results) : t <= results[i].temp)

get_max_temp(results) ==
    IF results = <<>> THEN Raise("IndexError")
    ELSE IF \E i \in 1..Len(results) : ~has(results[i], "temp")
    THEN Raise("KeyError")
    ELSE Return(CHOOSE t \in {results[i].temp : i \in 1..Len(results)} :
                    \A i \in 1..Len(results) : t >= results[i].temp)

(***************************************************************************)
(* GET /results                                                            *)
(***************************************************************************)
CityNotFound == "The city name you entered was not found."

DateNotValid == "The date you entered is not valid"

results_context(units, result_json, sunrise_time, sunset_time, current_time, weather_image) ==
    IF weather_image.exc # "none" THEN weather_image ELSE
    IF ~has(result_json, "name") THEN Raise("KeyError") ELSE
    IF ~has(result_json, "main") THEN Raise("KeyError") ELSE
    IF ~has(result_json, "wind") THEN Raise("KeyError") ELSE
    Return(render_template("results.html",
        [date |-> current_time,
         city |-> result_json.name,
         description |-> result_json.weather[1].description,
         temp |-> result_json.main.temp,
         humidity |-> result_json.main.humidity,
         wind_speed |-> result_json.wind.speed,
         sunrise |-> sunrise_time,
         sunset |-> sunset_time,
         units_letter |-> get_letter_for_units(units),
         icon |-> result_json.weather[1].icon,
         image |-> weather_image.val]))

results_times(units, result_json, sunrise_time, sunset_time, current_time) ==
    IF sunrise_time.exc # "none" THEN sunrise_time ELSE
    IF sunset_time.exc # "none" THEN sunset_time ELSE
    IF current_time.exc # "none" THEN current_time ELSE
    IF ~has(result_json, "weather") THEN Raise("KeyError") ELSE
    results_context(units, result_json, sunrise_time.val, sunset_time.val,
                    current_time.val,
                    get_background_image(result_json.weather[1].icon))

results_try(units, result_json, env) ==
    IF ~has(result_json, "coord") THEN Raise("KeyError") ELSE
    IF ~has(result_json, "sys") THEN Raise("KeyError") ELSE
    results_times(units, result_json,
        get_zone_time(result_json.sys.sunrise, result_json.coord.lat,
                      result_json.coord.lon, env),
        get_zone_time(result_json.sys.sunset, result_json.coord.lat,
                      result_json.coord.lon, env),
        get_zone_time(env.now, result_json.coord.lat, result_json.coord.lon, env))

\* except KeyError
results_except(r) ==
    [response |->
        IF r.exc = "none" THEN r.val
        ELSE IF Caught(r.exc, {"KeyError"})
        THEN render_template("error.html", [error |-> CityNotFound])
        ELSE Propagate(r.exc),
     calls |-> <<"weather">>]

results(units, result_json, env) ==
    results_except(results_try(units, result_json, env))

(***************************************************************************)
(* datetime.strptime(date, "%Y-%m-%d").  The date argument is a record:    *)
(* given = FALSE is request.args.get returning None; wellformed says the   *)
(* text has the shape digits-digits-digits; year, month and day are the    *)
(* numbers the three fields hold.                                          *)
(***************************************************************************)
IsLeap(y) == (y % 4 = 0 /\ y % 100 # 0) \/ y % 400 = 0

DaysInMonth(y, m) ==
    IF m = 2 THEN (IF IsLeap(y) THEN 29 ELSE 28)
    ELSE IF m \in {4, 6, 9, 11} THEN 30 ELSE 31

strptime(date) ==
    IF ~date.given THEN Raise("TypeError")
    ELSE IF /\ date.wellformed
            /\ date.year >= 1
            /\ date.month \in 1..12
            /\ date.day \in 1..DaysInMonth(date.year, date.month)
    THEN Return([year |-> date.year, month |-> date.month, day |-> date.day])
    ELSE Raise("ValueError")

(***************************************************************************)
(* GET /historical_results                                                 *)
(***************************************************************************)
historical_results_context(city, date_obj, units, result_json, coords, weather_image, min_temp, max_temp) ==
    IF weather_image.exc # "none" THEN weather_image ELSE
    IF min_temp.exc # "none" THEN min_temp ELSE
    IF max_temp.exc # "none" THEN max_temp ELSE
    Return(render_template("historical_results.html",
        [city |-> city,
         date |-> date_obj,
         lat |-> coords[1],
         lon |-> coords[2],
         units |-> units,
         units_letter |-> get_letter_for_units(units),
         description |-> result_json.current.weather[1].description,
         temp |-> result_json.current.temp,
         min_temp |-> min_temp.val,
         max_temp |-> max_temp.val,
         icon |-> result_json.current.weather[1].icon,
         image |-> weather_image.val]))

historical_results_payload(city, date_obj, units, result_json, coords) ==
    IF ~has(result_json, "current") THEN Raise("KeyError") ELSE
    IF ~has(result_json, "hourly") THEN Raise("KeyError") ELSE
    historical_results_context(city, date_obj, units, result_json, coords,
        get_background_image(result_json.current.weather[1].icon),
        get_min_temp(result_json.hourly),
        get_max_temp(result_json.hourly))

WithCalls(r, made) == [exc |-> r.exc, val |-> r.val, calls |-> made]

historical_results_dated(city, date_obj, units, result_json, env) ==
    IF date_obj.exc # "none" THEN WithCalls(date_obj, <<>>)
    ELSE WithCalls(
            historical_results_payload(city, date_obj.val, units, result_json,
                                       get_lat_lon(city, env)),
            <<"geocode", "timemachine">>)

historical_results_try(city, date, units, result_json, env) ==
    historical_results_dated(city, strptime(date), units, result_json, env)

\* the handler with the except clause left out
historical_results_propagate(r) ==
    [response |-> IF r.exc = "none" THEN r.val ELSE Propagate(r.exc),
     calls |-> r.calls]

\* except (ValueError, KeyError)
historical_results_except(r) ==
    [response |->
        IF r.exc = "none" THEN r.val
        ELSE IF Caught(r.exc, {"ValueError", "KeyError"})
        THEN render_template("error.html", [error |-> DateNotValid])
        ELSE Propagate(r.exc),
     calls |-> r.calls]

historical_results_uncaught(city, date, units, result_json, env) ==
    historical_results_propagate(
        historical_results_try(city, date, units, result_json, env))

historical_results(city, date, units, result_json, env) ==
    historical_results_except(
        historical_results_try(city, date, units, result_json, env))

(***************************************************************************)
(* GET /forecast_results                                                   *)
(***************************************************************************)
forecast_results_context(city, units, result_json, day_list, current_time, weather_image) ==
    IF day_list.exc # "none" THEN Raise(day_list.exc) ELSE
    IF current_time.exc # "none" THEN current_time ELSE
    IF weather_image.exc # "none" THEN weather_image ELSE
    Return(render_template("forecast_results.html",
        [date |-> current_time.val,
         city |-> city,
         description |-> result_json.current.weather[1].description,
         temp |-> result_json.current.temp,
         units_letter |-> get_letter_for_units(units),
         icon |-> result_json.current.weather[1].icon,
         image |-> weather_image.val,
         day_list |-> day_list.val]))

WithDaily(r, days) == [exc |-> r.exc, val |-> r.val, daily |-> days]

forecast_results_payload(city, units, result_json, coords, day_list, env) ==
    WithDaily(
        forecast_results_context(city, units, result_json, day_list,
            get_zone_time(env.now, coords[1], coords[2], env),
            get_background_image(result_json.current.weather[1].icon)),
        day_list.days)

forecast_results_try(city, units, result_json, env) ==
    IF ~has(result_json, "current")
    THEN WithDaily(Raise("KeyError"),
                   IF has(result_json, "daily") THEN result_json.daily ELSE <<>>)
    ELSE IF ~has(result_json, "daily")
    THEN WithDaily(Raise("KeyError"), <<>>)
    ELSE forecast_results_payload(city, units, result_json,
             get_lat_lon(city, env), get_daily_stats(result_json.daily), env)

\* except (ValueError, KeyError)
forecast_results_except(r) ==
    [response |->
        IF r.exc = "none" THEN r.val
        ELSE IF Caught(r.exc, {"ValueError", "KeyError"})
        THEN render_template("error.html", [error |-> CityNotFound])
        ELSE Propagate(r.exc),
     calls |-> <<"geocode", "onecall">>,
     daily |-> r.daily]

forecast_results(city, units, result_json, env) ==
    forecast_results_except(forecast_results_try(city, units, result_json, env))

(***************************************************************************)
(* GET /graph/<lat>/<lon>/<units>/<date>.  plt.subplots() registers a new  *)
(* figure with pyplot and nothing closes it; plt.plot raises ValueError    *)
(* when its two sequences differ in length.  The field opened counts the   *)
(* figures the call leaves registered.                                     *)
(***************************************************************************)
HoursPerDay == 24

create_image_file(xAxisData, yAxisData, xLabel, yLabel) ==
    IF Len(xAxisData) # Len(yAxisData)
    THEN [exc |-> "ValueError", val |-> None, opened |-> 1]
    ELSE [exc |-> "none",
          val |-> [kind |-> "image", mimetype |-> "image/png",
                   x |-> xAxisData, y |-> yAxisData,
                   xlabel |-> xLabel, ylabel |-> yLabel],
          opened |-> 1]

graph_image(image) ==
    [response |-> IF image.exc = "none" THEN image.val ELSE Propagate(image.exc),
     calls |-> <<"timemachine">>,
     opened |-> image.opened]

graph_dated(units, date_obj, result_json) ==
    IF date_obj.exc # "none"
    THEN [response |-> Propagate(date_obj.exc), calls |-> <<>>, opened |-> 0]
    ELSE IF ~has(result_json, "hourly")
    THEN [response |-> Propagate("KeyError"), calls |-> <<"timemachine">>,
          opened |-> 0]
    ELSE IF \E i \in 1..Len(result_json.hourly) :
                ~has(result_json.hourly[i], "temp")
    THEN [response |-> Propagate("KeyError"), calls |-> <<"timemachine">>,
          opened |-> 0]
    ELSE graph_image(
            create_image_file(
                [i \in 1..HoursPerDay |-> i - 1],
                [i \in 1..Len(result_json.hourly) |-> result_json.hourly[i].temp],
                "Hour",
                <<"Temperature", get_letter_for_units(units)>>))

graph(lat, lon, units, date, result_json) ==
    graph_dated(units, strptime(date), result_json)

(***************************************************************************)
(* GET /                                                                   *)
(***************************************************************************)
home(env) ==
    render_template("home.html",
        [min_date |-> fromtimestamp(env.now - 5 * 86400),
         max_date |-> fromtimestamp(env.now)])

(***************************************************************************)
(* Inputs: what a client and the collaborators can send.                   *)
(***************************************************************************)
Chars == {"0", "1", "2", "3", "4", "5", "6", "7", "8", "9",
          "d", "n", " ", "-", "+"}

\* every icon string of at most n characters
IconStrings(n) == UNION {[1..k -> Chars] : k \in 0..n}

\* icon codes a provider payload carries in the handlers
PayloadIcons == {<<"0", "1", "d">>, <<"1", "0", "n">>, <<"n", "a">>}

UnitsValues == {"imperial", "metric", "kelvin", "Imperial", "", None}

UnitsArgs == {"imperial", "metric", None}

NoMatch == [matched |-> FALSE, latitude |-> 0, longitude |-> 0]

Places ==
    {[city |-> "London",
      location |-> [matched |-> TRUE, latitude |-> 51, longitude |-> -1]],
     [city |-> "Nonexistent City123", location |-> NoMatch]}

Envs ==
    [location : {NoMatch},
     zone : {"Europe/London", None},
     now : {90000}]

DateArgs ==
    {[given |-> FALSE, wellformed |-> FALSE, year |-> 0, month |-> 0, day |-> 0],
     [given |-> TRUE, wellformed |-> FALSE, year |-> 0, month |-> 0, day |-> 0]}
    \cup [given : {TRUE}, wellformed : {TRUE}, year : {2023, 2024},
          month : {2, 12, 13}, day : {29, 31, 40}]

Restrict(r, keys) == [k \in keys |-> r[k]]

Condition(icon) == <<[icon |-> icon, description |-> "light rain"]>>

WeatherJson(icon) ==
    [coord |-> [lat |-> 51, lon |-> -1],
     sys |-> [sunrise |-> 21600, sunset |-> 64800],
     weather |-> Condition(icon),
     name |-> "London",
     main |-> [temp |-> 10, humidity |-> 50],
     wind |-> [speed |-> 3]]

DaySet ==
    {[dt |-> 86400, temp |-> [min |-> 1, max |-> 5],
      weather |-> <<[icon |-> <<"0", "1", "d">>, description |-> "clear sky"]>>],
     [dt |-> 180000, temp |-> [min |-> 2, max |-> 7],
      weather |-> <<[icon |-> <<"1", "0", "d">>, description |-> "rain"]>>],
     [dt |-> 260000,
      weather |-> <<[icon |-> <<"1", "3", "d">>, description |-> "snow"]>>]}

DailyLists == UNION {[1..k -> DaySet] : k \in 0..MaxDays}

HourSet == {[dt |-> 0, temp |-> 4], [dt |-> 3600, temp |-> 9], [dt |-> 7200]}

HourlyLists == UNION {[1..k -> HourSet] : k \in 0..MaxHours}

FullDay == [i \in 1..HoursPerDay |-> [dt |-> 3600 * (i - 1), temp |-> i % 7]]

OneCallJson(icon, hourly, days) ==
    [current |-> [temp |-> 7, weather |-> Condition(icon)],
     hourly |-> hourly,
     daily |-> days]

(***************************************************************************)
(* The state machine: between requests the server is idle; a request runs  *)
(* one handler to completion; EndRequest drops what the request held.      *)
(***************************************************************************)
Init ==
    /\ style = "ggplot"
    /\ figures = 0
    /\ op = "idle"
    /\ input = <<>>
    /\ output = <<>>
    /\ calls = <<>>
    /\ payload_daily = <<>>

Home ==
    /\ op = "idle"
    /\ \E env \in Envs :
        /\ op' = "home"
        /\ input' = [env |-> env]
        /\ output' = home(env)
    /\ calls' = <<>>
    /\ payload_daily' = <<>>
    /\ UNCHANGED <<style, figures>>

Results ==
    /\ op = "idle"
    /\ \E units \in UnitsArgs, env \in Envs,
          result_json \in {Restrict(WeatherJson(icon), keys) :
                              icon \in PayloadIcons,
                              keys \in SUBSET DOMAIN WeatherJson(<<>>)} :
        \E r \in {results(units, result_json, env)} :
            /\ op' = "results"
            /\ input' = [units |-> units, result_json |-> result_json, env |-> env]
            /\ output' = r.response
            /\ calls' = r.calls
    /\ payload_daily' = <<>>
    /\ UNCHANGED <<style, figures>>

HistoricalResults ==
    /\ op = "idle"
    /\ \E place \in Places, date \in DateArgs, units \in UnitsArgs,
          env \in Envs,
          result_json \in {Restrict(OneCallJson(icon, hourly, <<>>), keys) :
                              icon \in PayloadIcons, hourly \in HourlyLists,
                              keys \in SUBSET {"current", "hourly"}} :
        \E r \in {historical_results(place.city, date, units, result_json,
                                     [env EXCEPT !.location = place.location])} :
            /\ op' = "historical_results"
            /\ input' = [city |-> place.city, location |-> place.location,
                         date |-> date, units |-> units,
                         result_json |-> result_json]
            /\ output' = r.response
            /\ calls' = r.calls
    /\ payload_daily' = <<>>
    /\ UNCHANGED <<style, figures>>

ForecastResults ==
    /\ op = "idle"
    /\ \E place \in Places, units \in UnitsArgs, env \in Envs,
          result_json \in {Restrict(OneCallJson(icon, <<>>, days), keys) :
                              icon \in PayloadIcons, days \in DailyLists,
                              keys \in SUBSET {"current", "daily"}} :
        \E r \in {forecast_results(place.city, units, result_json,
                                   [env EXCEPT !.location = place.location])} :
            /\ op' = "forecast_results"
            /\ input' = [city |-> place.city, units |-> units,
                         result_json |-> result_json,
                         env |-> [env EXCEPT !.location = place.location]]
            /\ output' = r.response
            /\ calls' = r.calls
            /\ payload_daily' = r.daily
    /\ UNCHANGED <<style, figures>>

Graph ==
    /\ op = "idle"
    /\ \E units \in UnitsArgs, date \in {d \in DateArgs : d.given},
          result_json \in {Restrict(OneCallJson(<<>>, hourly, <<>>), keys) :
                              hourly \in HourlyLists \cup {FullDay},
                              keys \in SUBSET {"hourly"}} :
        \E r \in {graph("51", "-1", units, date, result_json)} :
            /\ figures + r.opened <= MaxFigures
            /\ op' = "graph"
            /\ input' = [units |-> units, date |-> date, result_json |-> result_json]
            /\ output' = r.response
            /\ calls' = r.calls
            /\ figures' = figures + r.opened
    /\ payload_daily' = <<>>
    /\ UNCHANGED style

CallGetLetterForUnits ==
    /\ op = "idle"
    /\ \E units \in UnitsValues :
        /\ op' = "get_letter_for_units"
        /\ input' = [units |-> units]
        /\ output' = Return(get_letter_for_units(units))
    /\ calls' = <<>>
    /\ payload_daily' = <<>>
    /\ UNCHANGED <<style, figures>>

CallGetBackgroundImage ==
    /\ op = "idle"
    /\ \E icon \in IconStrings(MaxIconLen) :
        /\ op' = "get_background_image"
        /\ input' = [icon |-> icon]
        /\ output' = get_background_image(icon)
    /\ calls' = <<>>
    /\ payload_daily' = <<>>
    /\ UNCHANGED <<style, figures>>

CallGetDailyStats ==
    /\ op = "idle"
    /\ \E days \in DailyLists :
        \E r \in {get_daily_stats(days)} :
            /\ op' = "get_daily_stats"
            /\ input' = [days |-> days]
            /\ output' = [exc |-> r.exc, val |-> r.val]
            /\ payload_daily' = r.days
    /\ calls' = <<>>
    /\ UNCHANGED <<style, figures>>

EndRequest ==
    /\ op # "idle"
    /\ op' = "idle"
    /\ input' = <<>>
    /\ output' = <<>>
    /\ calls' = <<>>
    /\ payload_daily' = <<>>
    /\ UNCHANGED <<style, figures>>

Next ==
    \/ Home
    \/ Results
    \/ HistoricalResults
    \/ ForecastResults
    \/ Graph
    \/ CallGetLetterForUnits
    \/ CallGetBackgroundImage
    \/ CallGetDailyStats
    \/ EndRequest

Spec == Init /\ [][Next]_vars

(***************************************************************************)
(* Properties.                                                             *)
(***************************************************************************)
ErrorPage(message) == render_template("error.html", [error |-> message])

AllDayFields(day) == {"dt", "temp", "weather"} \subseteq DOMAIN day

\* the date text names a day of the calendar in the form YYYY-MM-DD
IsCalendarDate(date) ==
    /\ date.wellformed
    /\ date.year >= 1
    /\ date.month \in 1..12
    /\ date.day >= 1
    /\ date.day <= DaysInMonth(date.year, date.month)

ClaimedImage(code) ==
    CASE code = 1 -> "clear"
      [] code \in 2..8 -> "cloudy"
      [] code \in {9, 10} -> "rainy"
      [] code = 11 -> "thunderstorm"
      [] code = 13 -> "snowy"
      [] OTHER -> "misty"

\* C1: whenever the first two characters of the icon parse as a code in
\* 0..99, get_background_image returns the category fixed by that code alone:
\* 1 clear, 2..8 cloudy, 9 and 10 rainy, 11 thunderstorm, 13 snowy, and misty
\* for every other code (0, 12, 14..99).
C1_IconCategory ==
    op = "get_background_image" =>
        \A code \in 0..99 :
            int(FirstTwo(input.icon)) = Return(code) =>
                output = Return(ClaimedImage(code))

C1_Witness ==
    /\ op = "get_background_image"
    /\ input.icon = <<"1", "2", "d">>
    /\ output = Return("misty")

\* C2: on a list of N >= 1 daily payloads get_daily_stats returns N-1
\* summaries, the i-th being (min_temp, max_temp, icon, description, date) of
\* input element i+1: the first day is dropped and the order is kept.
C2_DailyStatsProjection ==
    (/\ op = "get_daily_stats"
     /\ Len(input.days) >= 1
     /\ \A i \in 2..Len(input.days) : AllDayFields(input.days[i]))
    => /\ output.exc = "none"
       /\ Len(output.val) = Len(input.days) - 1
       /\ \A i \in 1..Len(input.days) - 1 :
            output.val[i] =
                [min_temp |-> input.days[i + 1].temp.min,
                 max_temp |-> input.days[i + 1].temp.max,
                 icon |-> input.days[i + 1].weather[1].icon,
                 description |-> input.days[i + 1].weather[1].description,
                 date |-> fromtimestamp(input.days[i + 1].dt)]

C2_Witness ==
    /\ op = "get_daily_stats"
    /\ Len(input.days) = 3
    /\ output.exc = "none"
    /\ Len(output.val) = 2
    /\ output.val[1] # output.val[2]

\* C3: on an empty daily list get_daily_stats returns an empty sequence, and
\* a /forecast_results request whose payload has an empty "daily" list ends
\* in a rendered page, never in an uncaught exception.
C3_EmptyDailyHandled ==
    /\ (op = "get_daily_stats" /\ input.days = <<>>) =>
            (output.exc = "none" /\ output.val = <<>>)
    /\ (/\ op = "forecast_results"
        /\ has(input.result_json, "daily")
        /\ input.result_json.daily = <<>>) => output.kind = "page"

\* C4: on /results, whenever the provider payload lacks an expected key the
\* handler returns the error page saying the city name was not found.
C4_MissingKeyCityNotFound ==
    (op = "results" /\ DOMAIN input.result_json # DOMAIN WeatherJson(<<>>))
    => output = ErrorPage(CityNotFound)

\* C5: on /historical_results, whenever the date parameter does not parse as
\* YYYY-MM-DD the handler returns the error page saying the date is not
\* valid, before any geocoding or weather-provider call is made.
C5_InvalidDateErrorPage ==
    (/\ op = "historical_results"
     /\ input.date.given
     /\ ~IsCalendarDate(input.date))
    => (output = ErrorPage(DateNotValid) /\ calls = <<>>)

C5_Witness ==
    /\ op = "historical_results"
    /\ input.date = [given |-> TRUE, wellformed |-> TRUE,
                     year |-> 2024, month |-> 13, day |-> 40]
    /\ output = ErrorPage(DateNotValid)
    /\ calls = <<>>

\* C6: in /results, /historical_results and /forecast_results no malformed
\* date, missing payload key, non-numeric icon code or coordinate without a
\* timezone ends the request as an unhandled fault.
C6_ErrorsCaughtAtBoundary ==
    op \in {"results", "historical_results", "forecast_results"} =>
        ~(/\ output.kind = "fault"
          /\ output.exc \in {"ValueError", "KeyError", "UnknownTimeZoneError"})

\* C7: on /historical_results, when the geocoder finds no match for the city
\* and the date is valid, the page the request ends in is the error page,
\* not a rendered historical page for some other location.
C7_UnknownCityErrorPage ==
    (/\ op = "historical_results"
     /\ ~input.location.matched
     /\ input.date.given
     /\ IsCalendarDate(input.date)
     /\ output.kind = "page")
    =>  output.template = "error.html"

\* C8: get_letter_for_units never raises and returns "F" for "imperial", "C"
\* for "metric" and "K" for every other value, None included.
C8_LetterForUnits ==
    op = "get_letter_for_units" =>
        output = Return(CASE input.units = "imperial" -> "F"
                          [] input.units = "metric" -> "C"
                          [] OTHER -> "K")

C8_Witness ==
    /\ op = "get_letter_for_units"
    /\ input.units = None
    /\ output = Return("K")

\* C9: after get_daily_stats(days) returns, the caller's list has the same
\* length and the same elements in the same order as before the call.
C9_PayloadUnchanged ==
    /\ (op = "get_daily_stats" /\ output.exc = "none") =>
            payload_daily = input.days
    /\ (/\ op = "forecast_results"
        /\ output.kind = "page"
        /\ output.template = "forecast_results.html") =>
            payload_daily = input.result_json.daily

\* C10: whatever requests were served, the only process-wide state is the
\* charting style set at startup, unchanged; no request leaves other
\* process-wide state behind, such as figures open in the drawing library's
\* registry.
C10_NoStateSurvivesRequests ==
    /\ style = "ggplot"
    /\ figures = 0

====
